---- MODULE Spec2Model ----
(***************************************************************************)
(* Model of the temporary-mail service: the in-memory RateLimiter          *)
(* (rate_limiter.py) and the store DatabaseTempMailStorage (db_storage.py) *)
(* over the tables temp_emails and emails (models.py).                     *)
(***************************************************************************)
EXTENDS Integers, Sequences, FiniteSets, Bags, TLC

VARIABLES
    now,             \* RateLimiter: the wall clock, in ticks of 1/TicksPerSecond second
    request_counts,  \* RateLimiter.request_counts: [ip][endpoint] -> list of <<timestamp, count>>
    calls,           \* history: the sequential check_rate_limit calls made and their results
    thr,             \* the position and locals of each concurrent check_rate_limit call
    alone,           \* per (ip, endpoint): request_counts of the run that makes the calls of this pair only
    wall,            \* account store: the wall clock, in hours
    temp_emails,     \* the temp_emails table: the rows in primary-key order
    last,            \* history: the last account-store call, its arguments and its result
    accounts,        \* TempMailStorage.accounts: the dict from email to account data with created_at
    gone,            \* history: per email, the time of the get_account call that found its account expired (-1: none)
    emails,          \* the emails table: the bag of its rows (their primary key is never read)
    sv               \* the position and locals of each concurrent save_email call

rlVars == <<now, request_counts, calls, thr, alone>>
dbVars == <<wall, temp_emails, last, gone, accounts>>
msgVars == <<emails, sv>>
vars == <<now, request_counts, calls, thr, alone, wall, temp_emails, last, gone, accounts, emails, sv>>

(***************************************************************************)
(* Bounds of the model.                                                    *)
(***************************************************************************)
\* clock resolution of the rate limiter model: ticks per second
TicksPerSecond == 2
\* the quota (max_requests, timeframe in seconds) the algorithm is run with;
\* check_rate_limit reads nothing of the quota but this pair
max_requests == 2
timeframe == 2
\* last clock tick of the rate limiter model
MaxTime == 6
\* number of sequential check_rate_limit calls in a run
MaxCalls == 5
\* number of concurrent check_rate_limit calls
NThreads == 3
\* hours between two readings of the account store's clock, and its last reading
ClockStep == 8
MaxWall == 40
\* number of routes a run of the API requests
MaxRoutes == 3

(***************************************************************************)
(* Program constants.                                                      *)
(***************************************************************************)
\* timedelta(hours=24): the age after which an account is expired
Hours24 == 24

IPs == {"10.0.0.1", "10.0.0.2"}
Endpoints == {"generate_email"}
Threads == 1..NThreads

RECURSIVE SumCounts(_)
SumCounts(s) == IF s = <<>> THEN 0 ELSE Head(s)[2] + SumCounts(Tail(s))

(***************************************************************************)
(* RateLimiter                                                             *)
(***************************************************************************)
\* max_requests, timeframe = self.rate_limits.get(endpoint, self.default_rate_limit);
\* the timeframe is converted to clock ticks
RateLimit(endpoint) == <<max_requests, timeframe * TicksPerSecond>>

\* now - timestamp < timeframe_delta: the test of both list comprehensions
InWindowOrEqual(timestamp, t, w) == t - timestamp <= w
InWindow(timestamp, t, w) == t - timestamp < w

RECURSIVE Filter(_, _, _)
Filter(s, t, w) ==
    IF s = <<>> THEN <<>>
    ELSE IF InWindow(Head(s)[1], t, w) THEN <<Head(s)>> \o Filter(Tail(s), t, w)
         ELSE Filter(Tail(s), t, w)

\* the list comprehension of _cleanup_old_requests
_cleanup_old_requests(buckets, t, w) == Filter(buckets, t, w)

\* sum(count for timestamp, count in ... if now - timestamp < timeframe_delta)
CountsBuckets(buckets, t, w) == Len(Filter(buckets, t, w))
recent_requests(buckets, t, w) == SumCounts(Filter(buckets, t, w))

\* _add_request: increment the last bucket when it is less than one second old,
\* else append (timestamp, 1)
CoalescesTwoSeconds(buckets, t) ==
    IF buckets # <<>> /\ t - buckets[Len(buckets)][1] < 2 * TicksPerSecond
    THEN [buckets EXCEPT ![Len(buckets)] = <<@[1], @[2] + 1>>]
    ELSE Append(buckets, <<t, 1>>)
AlwaysAppends(buckets, t) == Append(buckets, <<t, 1>>)
_add_request(buckets, t) ==
    IF buckets # <<>> /\ t - buckets[Len(buckets)][1] < TicksPerSecond
    THEN [buckets EXCEPT ![Len(buckets)] = <<@[1], @[2] + 1>>]
    ELSE Append(buckets, <<t, 1>>)

\* the list of (ip, endpoint) after a check_rate_limit call at time t
RecordsRejected(buckets, t, m, w) == _add_request(_cleanup_old_requests(buckets, t, w), t)
BucketsAfter(buckets, t, m, w) ==
    LET cleaned == _cleanup_old_requests(buckets, t, w)
    IN  IF recent_requests(cleaned, t, w) >= m THEN cleaned ELSE _add_request(cleaned, t)

\* one sequential call of check_rate_limit(ip, endpoint)
check_rate_limit(ip, endpoint) ==
    LET m == RateLimit(endpoint)[1]
        w == RateLimit(endpoint)[2]
        before == request_counts[ip][endpoint]
        cleaned == _cleanup_old_requests(before, now, w)
        allowed == ~(recent_requests(cleaned, now, w) >= m)
    IN  /\ Len(calls) < MaxCalls
        /\ request_counts' = [request_counts EXCEPT ![ip][endpoint] = BucketsAfter(before, now, m, w)]
        /\ calls' = Append(calls, [ip |-> ip, endpoint |-> endpoint, t |-> now, ok |-> allowed])
        /\ UNCHANGED <<now, thr, alone>>
        /\ UNCHANGED dbVars
        /\ UNCHANGED msgVars

\* the endpoint names the API handlers pass to check_rate_limit
Operations ==
    {"get_domains", "generate_email", "get_emails", "get_email_content", "delete_email", "delete_account"}

\* self.rate_limits and self.default_rate_limit: (max_requests, timeframe in seconds)
rate_limits ==
    [generate_email |-> <<5, 60>>, get_emails |-> <<60, 60>>, get_email_content |-> <<60, 60>>,
     delete_email |-> <<30, 60>>, delete_account |-> <<5, 60>>]
default_rate_limit == <<20, 60>>

\* self.rate_limits.get(endpoint, self.default_rate_limit), the timeframe in ticks
DefaultForEveryOperation(endpoint) == <<default_rate_limit[1], default_rate_limit[2] * TicksPerSecond>>
rate_limits_get(endpoint) ==
    IF endpoint \in DOMAIN rate_limits
    THEN <<rate_limits[endpoint][1], rate_limits[endpoint][2] * TicksPerSecond>>
    ELSE <<default_rate_limit[1], default_rate_limit[2] * TicksPerSecond>>

\* the recent requests of ip over the lists of the endpoints eps
RECURSIVE SumRecent(_, _, _, _, _)
SumRecent(counts, ip, eps, t, w) ==
    IF eps = {} THEN 0
    ELSE LET ep == CHOOSE e \in eps : TRUE
         IN  recent_requests(counts[ip][ep], t, w) + SumRecent(counts, ip, eps \ {ep}, t, w)

\* check_rate_limit(ip, endpoint) at time t on the table counts with the
\* quota q: the table after the call and the value returned
CountsAllOperations(counts, ip, endpoint, t, q) ==
    LET cleaned == _cleanup_old_requests(counts[ip][endpoint], t, q[2])
    IN  IF SumRecent([counts EXCEPT ![ip][endpoint] = cleaned], ip, DOMAIN counts[ip], t, q[2]) >= q[1]
        THEN [counts |-> [counts EXCEPT ![ip][endpoint] = cleaned], ok |-> FALSE]
        ELSE [counts |-> [counts EXCEPT ![ip][endpoint] = _add_request(cleaned, t)], ok |-> TRUE]
check_rate_limit_on(counts, ip, endpoint, t, q) ==
    LET cleaned == _cleanup_old_requests(counts[ip][endpoint], t, q[2])
    IN  IF recent_requests(cleaned, t, q[2]) >= q[1]
        THEN [counts |-> [counts EXCEPT ![ip][endpoint] = cleaned], ok |-> FALSE]
        ELSE [counts |-> [counts EXCEPT ![ip][endpoint] = _add_request(cleaned, t)], ok |-> TRUE]

\* one sequential call of check_rate_limit(ip, endpoint) under the quota q,
\* and the same call in the run that makes the calls of (ip, endpoint) only;
\* calls keeps the last call
Request(ip, endpoint, q) ==
    LET full == check_rate_limit_on(request_counts, ip, endpoint, now, q)
        solo == check_rate_limit_on(alone[<<ip, endpoint>>], ip, endpoint, now, q)
    IN  /\ request_counts' = full.counts
        /\ alone' = [alone EXCEPT ![<<ip, endpoint>>] = solo.counts]
        /\ calls' = <<[ip |-> ip, endpoint |-> endpoint, t |-> now, ok |-> full.ok, alone |-> solo.ok]>>
        /\ UNCHANGED <<now, thr>>
        /\ UNCHANGED dbVars
        /\ UNCHANGED msgVars

\* a run that calls one endpoint only
OnlyOperation(ip, endpoint) ==
    \A ep \in Operations \ {endpoint} : request_counts[ip][ep] = <<>>

\* datetime.now() at the calls of a run: two calls less than a second apart,
\* then the calls around the end of the default timeframe
Advance ==
    /\ now <= default_rate_limit[2] * TicksPerSecond
    /\ now' = IF now = 1 THEN default_rate_limit[2] * TicksPerSecond - 1 ELSE now + 1
    /\ UNCHANGED <<request_counts, calls, thr, alone>>
    /\ UNCHANGED dbVars
    /\ UNCHANGED msgVars

\* datetime.now() advances between calls
Tick ==
    /\ now < MaxTime
    /\ now' = now + 1
    /\ UNCHANGED <<request_counts, calls, thr, alone>>
    /\ UNCHANGED dbVars
    /\ UNCHANGED msgVars

(***************************************************************************)
(* Concurrent check_rate_limit calls for one (ip, endpoint): each call is  *)
(* a thread that runs the statements of check_rate_limit one at a time;    *)
(* the class takes no lock.                                                *)
(***************************************************************************)
ConcIp == "10.0.0.1"
ConcEndpoint == "generate_email"
ConcList == request_counts[ConcIp][ConcEndpoint]
ConcUnchanged == UNCHANGED <<now, calls, alone>> /\ UNCHANGED dbVars /\ UNCHANGED msgVars

\* now = datetime.now()
Begin(t) ==
    /\ thr[t].pc = "idle"
    /\ thr' = [thr EXCEPT ![t].pc = "cleanup_read", ![t].now = now]
    /\ UNCHANGED request_counts
    /\ ConcUnchanged

\* _cleanup_old_requests: the list comprehension is evaluated ...
CleanupRead(t) ==
    /\ thr[t].pc = "cleanup_read"
    /\ thr' = [thr EXCEPT ![t].pc = "cleanup_write",
                          ![t].tmp = _cleanup_old_requests(ConcList, thr[t].now, RateLimit(ConcEndpoint)[2])]
    /\ UNCHANGED request_counts
    /\ ConcUnchanged

\* ... and then assigned to self.request_counts[ip][endpoint]
CleanupWrite(t) ==
    /\ thr[t].pc = "cleanup_write"
    /\ request_counts' = [request_counts EXCEPT ![ConcIp][ConcEndpoint] = thr[t].tmp]
    /\ thr' = [thr EXCEPT ![t].pc = "count", ![t].tmp = <<>>]
    /\ ConcUnchanged

\* recent_requests = sum(...)
Count(t) ==
    /\ thr[t].pc = "count"
    /\ thr' = [thr EXCEPT ![t].pc = "check",
                          ![t].recent = recent_requests(ConcList, thr[t].now, RateLimit(ConcEndpoint)[2])]
    /\ UNCHANGED request_counts
    /\ ConcUnchanged

\* if recent_requests >= max_requests: return False
Check(t) ==
    /\ thr[t].pc = "check"
    /\ thr' = IF thr[t].recent >= RateLimit(ConcEndpoint)[1]
              THEN [thr EXCEPT ![t].pc = "done", ![t].ret = "False"]
              ELSE [thr EXCEPT ![t].pc = "add_test"]
    /\ UNCHANGED request_counts
    /\ ConcUnchanged

\* _add_request: the test of the if statement
AddTest(t) ==
    /\ thr[t].pc = "add_test"
    /\ thr' = IF ConcList # <<>> /\ thr[t].now - ConcList[Len(ConcList)][1] < TicksPerSecond
              THEN [thr EXCEPT ![t].pc = "incr_read"]
              ELSE [thr EXCEPT ![t].pc = "append"]
    /\ UNCHANGED request_counts
    /\ ConcUnchanged

\* last_timestamp, count = self.request_counts[ip][endpoint][-1]
\* (an IndexError when another call's cleanup has emptied the list meanwhile)
IncrRead(t) ==
    /\ thr[t].pc = "incr_read"
    /\ thr' = IF ConcList = <<>>
              THEN [thr EXCEPT ![t].pc = "done", ![t].ret = "IndexError"]
              ELSE [thr EXCEPT ![t].pc = "incr_write", ![t].tmp = ConcList[Len(ConcList)]]
    /\ UNCHANGED request_counts
    /\ ConcUnchanged

\* self.request_counts[ip][endpoint][-1] = (last_timestamp, count + 1); return True
IncrWrite(t) ==
    /\ thr[t].pc = "incr_write"
    /\ IF ConcList = <<>>
       THEN /\ thr' = [thr EXCEPT ![t].pc = "done", ![t].ret = "IndexError", ![t].tmp = <<>>]
            /\ UNCHANGED request_counts
       ELSE /\ request_counts' = [request_counts EXCEPT ![ConcIp][ConcEndpoint] =
                    [ConcList EXCEPT ![Len(ConcList)] = <<thr[t].tmp[1], thr[t].tmp[2] + 1>>]]
            /\ thr' = [thr EXCEPT ![t].pc = "done", ![t].ret = "True", ![t].tmp = <<>>]
    /\ ConcUnchanged

\* self.request_counts[ip][endpoint].append((timestamp, 1)); return True
AppendBucket(t) ==
    /\ thr[t].pc = "append"
    /\ request_counts' = [request_counts EXCEPT ![ConcIp][ConcEndpoint] = Append(ConcList, <<thr[t].now, 1>>)]
    /\ thr' = [thr EXCEPT ![t].pc = "done", ![t].ret = "True"]
    /\ ConcUnchanged

\* the clock advances while the calls run, all of them within one window
TickInWindow ==
    /\ now + 1 < RateLimit(ConcEndpoint)[2]
    /\ now' = now + 1
    /\ UNCHANGED <<request_counts, calls, thr, alone>>
    /\ UNCHANGED dbVars
    /\ UNCHANGED msgVars

(***************************************************************************)
(* DatabaseTempMailStorage over the temp_emails table.  Every call runs    *)
(* in one step: a call is one database transaction of one request.         *)
(***************************************************************************)
Emails == {"a@x.com", "b@x.com"}
\* Python's None, as a value of a column or of a dict entry
None == "None"
\* the dicts generate_email passes to add_account: id, token, password and
\* domain_type; the provider's token may be missing (.get('token') is None)
AccountData ==
    { [id |-> "id1", token |-> "tok1", password |-> "pw1", domain_type |-> "mail_tm"],
      [id |-> "id2", token |-> "tok2", password |-> "pw2", domain_type |-> "custom"],
      [id |-> "id3", token |-> None, password |-> "pw3", domain_type |-> "custom"] }
\* a dict that lacks the key 'id'
NoIdData == [token |-> "tok4", password |-> "pw4", domain_type |-> "custom"]
\* account_data['id'], account_data['token'] and account_data['password'] can be read
HasKeys(account_data) == {"id", "token", "password"} \subseteq DOMAIN account_data
NoData == [id |-> "", token |-> "", password |-> "", domain_type |-> ""]
\* the value of a call that returns no dict
NoVal == [none |-> TRUE]

\* TempEmail.query.filter_by(email=email).first(): the row's position, 0 when there is none
first_by_email(rows, email) ==
    IF \E i \in DOMAIN rows : rows[i].email = email
    THEN CHOOSE i \in DOMAIN rows :
            /\ rows[i].email = email
            /\ \A j \in DOMAIN rows : rows[j].email = email => i <= j
    ELSE 0

\* TempEmail.query.filter_by(email=email, is_active=True).first()
first_active(rows, email) ==
    IF \E i \in DOMAIN rows : rows[i].email = email /\ rows[i].is_active
    THEN CHOOSE i \in DOMAIN rows :
            /\ rows[i].email = email /\ rows[i].is_active
            /\ \A j \in DOMAIN rows : (rows[j].email = email /\ rows[j].is_active) => i <= j
    ELSE 0

\* TempEmail.is_expired: datetime.now() - self.created_at > timedelta(hours=24)
is_expired(row, t) == t - row.created_at > Hours24

\* the constraints of temp_emails that make the commit of a new row raise
\* IntegrityError: email is unique, account_id, token and password are not nullable
NotNullOnly(rows, email, account_data) ==
    \/ account_data.id = None
    \/ account_data.token = None
    \/ account_data.password = None
integrity_error(rows, email, account_data) ==
    \/ \E i \in DOMAIN rows : rows[i].email = email
    \/ account_data.id = None
    \/ account_data.token = None
    \/ account_data.password = None

\* the row add_account builds; domain_type is not passed and takes the column default
new_account(rows, email, account_data, t) ==
    [id |-> Len(rows) + 1, email |-> email, account_id |-> account_data.id,
     token |-> account_data.token, password |-> account_data.password,
     domain_type |-> "mail_tm", created_at |-> t, is_active |-> TRUE]

\* the table after _cleanup_old_accounts at time t
MarksAtTwentyFourHours(rows, t) ==
    [i \in DOMAIN rows |->
        IF rows[i].created_at <= t - Hours24 /\ rows[i].is_active
        THEN [rows[i] EXCEPT !.is_active = FALSE]
        ELSE rows[i]]
cleanup_rows(rows, t) ==
    [i \in DOMAIN rows |->
        IF rows[i].created_at < t - Hours24 /\ rows[i].is_active
        THEN [rows[i] EXCEPT !.is_active = FALSE]
        ELSE rows[i]]

\* the table after remove_account(email)
remove_rows(rows, email) ==
    IF first_by_email(rows, email) = 0 THEN rows
    ELSE [rows EXCEPT ![first_by_email(rows, email)].is_active = FALSE]

\* the record of a call that returned: ok tells a True, a dict or a list from
\* a False or a None, ret is the kind of value returned, val the dict or list,
\* err tells whether the call went through an except SQLAlchemyError clause
Called(op, email, data, ok, val) ==
    [op |-> op, email |-> email, data |-> data, ok |-> ok, val |-> val, t |-> wall, err |-> FALSE,
     ret |-> IF op = "cleanup" THEN "None"
             ELSE IF op \in {"get", "get_email"} THEN (IF ok THEN "dict" ELSE "None")
             ELSE IF op = "get_emails" THEN "list"
             ELSE IF ok THEN "True" ELSE "False"]
\* the record of a call that an exception left
Raised(op, email, data, exc) ==
    [op |-> op, email |-> email, data |-> data, ok |-> FALSE, val |-> NoVal, t |-> wall, err |-> FALSE,
     ret |-> exc]
Exceptions == {"KeyError", "AttributeError", "ValueError"}

OverwritesExisting(email, account_data) ==
    /\ HasKeys(account_data)
    /\ temp_emails' =
         IF first_by_email(temp_emails, email) = 0
         THEN cleanup_rows(Append(temp_emails, new_account(temp_emails, email, account_data, wall)), wall)
         ELSE [temp_emails EXCEPT ![first_by_email(temp_emails, email)] =
                  [new_account(temp_emails, email, account_data, wall) EXCEPT !.id = first_by_email(temp_emails, email)]]
    /\ last' = Called("add", email, account_data, TRUE, NoVal)
    /\ UNCHANGED <<accounts, wall, gone>>
    /\ UNCHANGED rlVars
    /\ UNCHANGED msgVars
\* add_account(email, account_data)
add_account(email, account_data) ==
    /\ IF ~HasKeys(account_data)
       THEN /\ temp_emails' = temp_emails
            /\ last' = Raised("add", email, account_data, "KeyError")
       ELSE IF integrity_error(temp_emails, email, account_data)
       THEN /\ temp_emails' = temp_emails
            /\ last' = Called("add", email, account_data, FALSE, NoVal)
       ELSE /\ temp_emails' =
                 cleanup_rows(Append(temp_emails, new_account(temp_emails, email, account_data, wall)), wall)
            /\ last' = Called("add", email, account_data, TRUE, NoVal)
    /\ UNCHANGED <<accounts, wall, gone>>
    /\ UNCHANGED rlVars
    /\ UNCHANGED msgVars

ReturnsNoneWithoutRemoving(email) ==
    LET i == first_active(temp_emails, email)
    IN  /\ IF i = 0 \/ is_expired(temp_emails[i], wall)
           THEN last' = Called("get", email, NoData, FALSE, NoVal)
           ELSE last' = Called("get", email, NoData, TRUE,
                               [id |-> temp_emails[i].account_id, token |-> temp_emails[i].token,
                                password |-> temp_emails[i].password])
        /\ gone' = IF i # 0 /\ is_expired(temp_emails[i], wall) /\ gone[email] < 0
                   THEN [gone EXCEPT ![email] = wall] ELSE gone
        /\ UNCHANGED <<accounts, wall, temp_emails>>
        /\ UNCHANGED rlVars
        /\ UNCHANGED msgVars
\* get_account(email)
get_account(email) ==
    LET i == first_active(temp_emails, email)
    IN  /\ IF i = 0
           THEN /\ last' = Called("get", email, NoData, FALSE, NoVal)
                /\ UNCHANGED <<temp_emails, gone>>
           ELSE IF is_expired(temp_emails[i], wall)
           THEN /\ temp_emails' = remove_rows(temp_emails, email)
                /\ gone' = IF gone[email] < 0 THEN [gone EXCEPT ![email] = wall] ELSE gone
                /\ last' = Called("get", email, NoData, FALSE, NoVal)
           ELSE /\ last' = Called("get", email, NoData, TRUE,
                                  [id |-> temp_emails[i].account_id, token |-> temp_emails[i].token,
                                   password |-> temp_emails[i].password])
                /\ UNCHANGED <<temp_emails, gone>>
        /\ UNCHANGED <<accounts, wall>>
        /\ UNCHANGED rlVars
        /\ UNCHANGED msgVars

RemovesActiveOnly(email) ==
    /\ temp_emails' = IF first_active(temp_emails, email) = 0 THEN temp_emails
                      ELSE [temp_emails EXCEPT ![first_active(temp_emails, email)].is_active = FALSE]
    /\ last' = Called("remove", email, NoData, first_active(temp_emails, email) # 0, NoVal)
    /\ UNCHANGED <<accounts, wall, gone>>
    /\ UNCHANGED rlVars
    /\ UNCHANGED msgVars
\* remove_account(email)
remove_account(email) ==
    /\ temp_emails' = remove_rows(temp_emails, email)
    /\ last' = Called("remove", email, NoData, first_by_email(temp_emails, email) # 0, NoVal)
    /\ UNCHANGED <<accounts, wall, gone>>
    /\ UNCHANGED rlVars
    /\ UNCHANGED msgVars

\* _cleanup_old_accounts()
_cleanup_old_accounts ==
    /\ temp_emails' = cleanup_rows(temp_emails, wall)
    /\ last' = Called("cleanup", "", NoData, FALSE, NoVal)
    /\ UNCHANGED <<accounts, wall, gone>>
    /\ UNCHANGED rlVars
    /\ UNCHANGED msgVars

\* datetime.now() advances between calls
TickWall ==
    /\ wall + ClockStep <= MaxWall
    /\ wall' = wall + ClockStep
    /\ UNCHANGED <<temp_emails, last, gone, accounts>>
    /\ UNCHANGED rlVars
    /\ UNCHANGED msgVars

(***************************************************************************)
(* DatabaseTempMailStorage over the emails table.                          *)
(***************************************************************************)
MessageIds == {"m1", "m2"}

\* str.replace('Z', '+00:00') on the createdAt strings of the provider
replace_Z(s) ==
    CASE s = "2024-05-01T10:00:00Z" -> "2024-05-01T10:00:00+00:00"
      [] s = "2024-05-01T12:00:00Z" -> "2024-05-01T12:00:00+00:00"
      [] OTHER -> s
\* datetime.fromisoformat: the hour of 2024-05-01 it denotes, -1 when it raises ValueError
fromisoformat(s) ==
    CASE s = "2024-05-01T10:00:00+00:00" -> 10
      [] s = "2024-05-01T12:00:00+00:00" -> 12
      [] OTHER -> -1

\* the messages of the provider as save_email reads them: from is
\* email_data.get('from', {}).get('address'), seen is email_data.get('seen', False),
\* the others are email_data.get(key); a missing key reads as None
EmailData ==
    { [id |-> "m1", from |-> "s1@y.org", subject |-> "sub1", intro |-> "in1", html |-> "<p>1</p>",
       text |-> "t1", seen |-> FALSE, createdAt |-> "2024-05-01T10:00:00Z"],
      [id |-> "m1", from |-> "s2@y.org", subject |-> "sub2", intro |-> "in2", html |-> "<p>2</p>",
       text |-> "t2", seen |-> TRUE, createdAt |-> "2024-05-01T12:00:00Z"],
      [id |-> "m2", from |-> "s3@y.org", subject |-> "sub3", intro |-> "in3", html |-> "<p>3</p>",
       text |-> "t3", seen |-> FALSE, createdAt |-> "2024-05-01T12:00:00Z"] }
\* messages without createdAt, with a createdAt that is no ISO date, without from
BadEmailData ==
    { [id |-> "m2", from |-> "s3@y.org", subject |-> "sub3", intro |-> "in3", html |-> "<p>3</p>",
       text |-> "t3", seen |-> FALSE, createdAt |-> None],
      [id |-> "m2", from |-> "s3@y.org", subject |-> "sub3", intro |-> "in3", html |-> "<p>3</p>",
       text |-> "t3", seen |-> FALSE, createdAt |-> "yesterday"],
      [id |-> "m2", from |-> None, subject |-> "sub3", intro |-> "in3", html |-> "<p>3</p>",
       text |-> "t3", seen |-> FALSE, createdAt |-> "2024-05-01T12:00:00Z"] }

\* the messages the provider holds for each address
Mailbox(email_address) ==
    IF email_address = "a@x.com" THEN EmailData \cup BadEmailData
    ELSE {d \in EmailData : d.id = "m1" /\ ~d.seen}

\* the exception that building the Email raises: None has no replace, a
\* malformed date makes fromisoformat raise; "" when it raises none
parse_error(email_data) ==
    IF email_data.createdAt = None THEN "AttributeError"
    ELSE IF fromisoformat(replace_Z(email_data.createdAt)) < 0 THEN "ValueError"
    ELSE ""

\* the constraints of emails that make the commit of a new row raise
\* IntegrityError: message_id and sender are not nullable
message_integrity_error(email_data) ==
    \/ email_data.id = None
    \/ email_data.from = None

\* Email.query.filter_by(message_id=message_id, temp_email_id=account): the rows
\* it selects; first() returns one of them, None when there is none
filter_by(rows, message_id, account) ==
    {r \in BagToSet(rows) : r.message_id = message_id /\ r.temp_email_id = account}
\* the table after a commit that inserts, changes or deletes one row
insert_row(rows, r) == rows (+) SetToBag({r})
delete_row(rows, r) == rows (-) SetToBag({r})
update_row(rows, r, changed) == insert_row(delete_row(rows, r), changed)

\* the row save_email builds
new_email(account, email_address, email_data) ==
    [message_id |-> email_data.id, temp_email_id |-> account, sender |-> email_data.from,
     recipient |-> email_address, subject |-> email_data.subject, intro |-> email_data.intro,
     html_content |-> email_data.html, text_content |-> email_data.text,
     is_read |-> email_data.seen,
     created_at |-> fromisoformat(replace_Z(email_data.createdAt))]

\* Email.to_dict(include_content)
to_dict(row, include_content) ==
    IF include_content
    THEN [id |-> row.message_id, from |-> row.sender, subject |-> row.subject, intro |-> row.intro,
          isRead |-> row.is_read, createdAt |-> row.created_at,
          to |-> row.recipient, text |-> row.text_content, html |-> row.html_content]
    ELSE [id |-> row.message_id, from |-> row.sender, subject |-> row.subject, intro |-> row.intro,
          isRead |-> row.is_read, createdAt |-> row.created_at]

RECURSIVE Perms(_)
Perms(S) == IF S = {} THEN {<<>>} ELSE UNION {{<<x>> \o p : p \in Perms(S \ {x})} : x \in S}
\* Email.query.filter_by(temp_email_id=account).order_by(Email.created_at.desc()).all():
\* the lists the database may return, rows of equal created_at in any order
OrdersAscending(rows, account) ==
    LET selected == {c \in BagToSet(rows) \X (1..BagCardinality(rows)) :
                        c[1].temp_email_id = account /\ c[2] <= CopiesIn(c[1], rows)}
    IN  {[k \in 1..Len(p) |-> p[k][1]] : p \in
            {q \in Perms(selected) :
                \A k \in 1..(Len(q) - 1) : q[k][1].created_at <= q[k + 1][1].created_at}}
order_by_created_at_desc(rows, account) ==
    LET selected == {c \in BagToSet(rows) \X (1..BagCardinality(rows)) :
                        c[1].temp_email_id = account /\ c[2] <= CopiesIn(c[1], rows)}
    IN  {[k \in 1..Len(p) |-> p[k][1]] : p \in
            {q \in Perms(selected) :
                \A k \in 1..(Len(q) - 1) : q[k][1].created_at >= q[k + 1][1].created_at}}

MsgUnchanged == UNCHANGED <<accounts, wall, temp_emails, gone, sv>> /\ UNCHANGED rlVars

OverwritesContent(email_address, email_data) ==
    LET account == first_active(temp_emails, email_address)
        existing == filter_by(emails, email_data.id, account)
    IN  /\ IF account = 0
           THEN /\ emails' = emails
                /\ last' = Called("save", email_address, email_data, FALSE, NoVal)
           ELSE IF parse_error(email_data) # ""
           THEN /\ emails' = emails
                /\ last' = Raised("save", email_address, email_data, parse_error(email_data))
           ELSE IF message_integrity_error(email_data)
           THEN /\ emails' = emails
                /\ last' = Called("save", email_address, email_data, FALSE, NoVal)
           ELSE IF existing # {}
           THEN /\ \E existing_email \in existing :
                    emails' = update_row(emails, existing_email,
                                         new_email(account, email_address, email_data))
                /\ last' = Called("save", email_address, email_data, TRUE, NoVal)
           ELSE /\ emails' = insert_row(emails, new_email(account, email_address, email_data))
                /\ last' = Called("save", email_address, email_data, TRUE, NoVal)
        /\ MsgUnchanged
SavesForInactiveOwner(email_address, email_data) ==
    LET account == first_by_email(temp_emails, email_address)
        existing == filter_by(emails, email_data.id, account)
    IN  /\ IF account = 0
           THEN /\ emails' = emails
                /\ last' = Called("save", email_address, email_data, FALSE, NoVal)
           ELSE IF existing # {}
           THEN /\ \E existing_email \in existing :
                    emails' = update_row(emails, existing_email,
                                         [existing_email EXCEPT !.is_read = email_data.seen])
                /\ last' = Called("save", email_address, email_data, TRUE, NoVal)
           ELSE IF parse_error(email_data) # ""
           THEN /\ emails' = emails
                /\ last' = Raised("save", email_address, email_data, parse_error(email_data))
           ELSE IF message_integrity_error(email_data)
           THEN /\ emails' = emails
                /\ last' = Called("save", email_address, email_data, FALSE, NoVal)
           ELSE /\ emails' = insert_row(emails, new_email(account, email_address, email_data))
                /\ last' = Called("save", email_address, email_data, TRUE, NoVal)
        /\ MsgUnchanged
\* save_email(email_address, email_data)
save_email(email_address, email_data) ==
    LET account == first_active(temp_emails, email_address)
        existing == filter_by(emails, email_data.id, account)
    IN  /\ IF account = 0
           THEN /\ emails' = emails
                /\ last' = Called("save", email_address, email_data, FALSE, NoVal)
           ELSE IF existing # {}
           THEN /\ \E existing_email \in existing :
                    emails' = update_row(emails, existing_email,
                                         [existing_email EXCEPT !.is_read = email_data.seen])
                /\ last' = Called("save", email_address, email_data, TRUE, NoVal)
           ELSE IF parse_error(email_data) # ""
           THEN /\ emails' = emails
                /\ last' = Raised("save", email_address, email_data, parse_error(email_data))
           ELSE IF message_integrity_error(email_data)
           THEN /\ emails' = emails
                /\ last' = Called("save", email_address, email_data, FALSE, NoVal)
           ELSE /\ emails' = insert_row(emails, new_email(account, email_address, email_data))
                /\ last' = Called("save", email_address, email_data, TRUE, NoVal)
        /\ MsgUnchanged

MarksEveryMessageOfOwner(email_address, message_id) ==
    LET account == first_active(temp_emails, email_address)
        found == filter_by(emails, message_id, account)
        owned == {r \in BagToSet(emails) : r.temp_email_id = account}
    IN  /\ IF account = 0 \/ found = {}
           THEN /\ emails' = emails
                /\ last' = Called("mark", email_address, [id |-> message_id], FALSE, NoVal)
           ELSE /\ emails' = [r \in BagToSet(emails) \ owned |-> emails[r]]
                                (+) SetToBag({[r EXCEPT !.is_read = TRUE] : r \in owned})
                /\ last' = Called("mark", email_address, [id |-> message_id], TRUE, NoVal)
        /\ MsgUnchanged
\* mark_email_as_read(email_address, message_id)
mark_email_as_read(email_address, message_id) ==
    LET account == first_active(temp_emails, email_address)
        found == filter_by(emails, message_id, account)
    IN  /\ IF account = 0 \/ found = {}
           THEN /\ emails' = emails
                /\ last' = Called("mark", email_address, [id |-> message_id], FALSE, NoVal)
           ELSE /\ \E email \in found :
                    emails' = update_row(emails, email, [email EXCEPT !.is_read = TRUE])
                /\ last' = Called("mark", email_address, [id |-> message_id], TRUE, NoVal)
        /\ MsgUnchanged

DeletesEveryMessageOfOwner(email_address, message_id) ==
    LET account == first_active(temp_emails, email_address)
        found == filter_by(emails, message_id, account)
    IN  /\ IF account = 0 \/ found = {}
           THEN /\ emails' = emails
                /\ last' = Called("delete", email_address, [id |-> message_id], FALSE, NoVal)
           ELSE /\ emails' = [r \in {x \in BagToSet(emails) : x.temp_email_id # account} |-> emails[r]]
                /\ last' = Called("delete", email_address, [id |-> message_id], TRUE, NoVal)
        /\ MsgUnchanged
\* delete_email(email_address, message_id)
delete_email(email_address, message_id) ==
    LET account == first_active(temp_emails, email_address)
        found == filter_by(emails, message_id, account)
    IN  /\ IF account = 0 \/ found = {}
           THEN /\ emails' = emails
                /\ last' = Called("delete", email_address, [id |-> message_id], FALSE, NoVal)
           ELSE /\ \E email \in found : emails' = delete_row(emails, email)
                /\ last' = Called("delete", email_address, [id |-> message_id], TRUE, NoVal)
        /\ MsgUnchanged

ListsInactiveOwner(email_address) ==
    LET account == first_by_email(temp_emails, email_address)
    IN  /\ IF account = 0
           THEN last' = Called("get_emails", email_address, NoData, FALSE, [list |-> <<>>])
           ELSE \E all \in order_by_created_at_desc(emails, account) :
                    last' = Called("get_emails", email_address, NoData, TRUE,
                                   [list |-> [k \in 1..Len(all) |-> to_dict(all[k], FALSE)]])
        /\ UNCHANGED emails
        /\ MsgUnchanged
\* get_emails(email_address)
get_emails(email_address) ==
    LET account == first_active(temp_emails, email_address)
    IN  /\ IF account = 0
           THEN last' = Called("get_emails", email_address, NoData, FALSE, [list |-> <<>>])
           ELSE \E all \in order_by_created_at_desc(emails, account) :
                    last' = Called("get_emails", email_address, NoData, TRUE,
                                   [list |-> [k \in 1..Len(all) |-> to_dict(all[k], FALSE)]])
        /\ UNCHANGED emails
        /\ MsgUnchanged

\* get_email(email_address, message_id)
get_email(email_address, message_id) ==
    LET account == first_active(temp_emails, email_address)
        found == filter_by(emails, message_id, account)
    IN  /\ IF account = 0 \/ found = {}
           THEN last' = Called("get_email", email_address, [id |-> message_id], FALSE, NoVal)
           ELSE \E email \in found :
                    last' = Called("get_email", email_address, [id |-> message_id], TRUE,
                                   to_dict(email, TRUE))
        /\ UNCHANGED emails
        /\ MsgUnchanged

(***************************************************************************)
(* The backend fails: a query or a commit raises SQLAlchemyError.  Every   *)
(* method catches it, rolls the session back and returns its failure       *)
(* value; _cleanup_old_accounts returns nothing.                           *)
(***************************************************************************)
FailingOps == {"add", "remove", "cleanup", "save", "mark", "delete"}
\* the arguments of the failing call
FailingData(op) ==
    IF op = "add" THEN {d \in AccountData : d.id = "id1"}
    ELSE IF op = "save" THEN {d \in EmailData : d.id = "m2"}
    ELSE IF op \in {"mark", "delete"} THEN {[id |-> "m1"]}
    ELSE {NoData}
SQLAlchemyError(op, email, data) ==
    /\ last' = [Called(op, IF op = "cleanup" THEN "" ELSE email, data, FALSE, NoVal) EXCEPT !.err = TRUE]
    /\ UNCHANGED <<accounts, wall, temp_emails, gone>>
    /\ UNCHANGED rlVars
    /\ UNCHANGED msgVars

\* add_account whose insert commits and whose _cleanup_old_accounts fails:
\* the cleanup catches the error itself and add_account returns True
add_account_cleanup_error(email, account_data) ==
    /\ HasKeys(account_data)
    /\ ~integrity_error(temp_emails, email, account_data)
    /\ temp_emails' = Append(temp_emails, new_account(temp_emails, email, account_data, wall))
    /\ last' = [Called("add", email, account_data, TRUE, NoVal) EXCEPT !.err = TRUE]
    /\ UNCHANGED <<accounts, wall, gone>>
    /\ UNCHANGED rlVars
    /\ UNCHANGED msgVars

(***************************************************************************)
(* Concurrent save_email calls, one per request thread, each in its own    *)
(* session: the account query, the query for an existing row, and the      *)
(* commit of the update or of the insert are separate statements.          *)
(***************************************************************************)
IdleSave == [pc |-> "idle", email |-> "", data |-> NoData, account |-> 0, existing |-> 0, ret |-> "none"]
SaveUnchanged == UNCHANGED dbVars /\ UNCHANGED rlVars

\* account = TempEmail.query.filter_by(email=email_address, is_active=True).first()
SaveAccount(t, email_address, email_data) ==
    /\ sv[t].pc = "idle"
    /\ sv' = [sv EXCEPT ![t] =
                IF first_active(temp_emails, email_address) = 0
                THEN [IdleSave EXCEPT !.pc = "done", !.email = email_address, !.data = email_data,
                                      !.ret = "False"]
                ELSE [IdleSave EXCEPT !.pc = "query", !.email = email_address, !.data = email_data,
                                      !.account = first_active(temp_emails, email_address)]]
    /\ UNCHANGED emails
    /\ SaveUnchanged

\* existing_email = Email.query.filter_by(message_id=..., temp_email_id=account.id).first():
\* one of the selected rows
SaveExisting(t) ==
    /\ sv[t].pc = "query"
    /\ IF filter_by(emails, sv[t].data.id, sv[t].account) = {}
       THEN sv' = [sv EXCEPT ![t].pc = "insert"]
       ELSE \E r \in filter_by(emails, sv[t].data.id, sv[t].account) :
                sv' = [sv EXCEPT ![t].pc = "update", ![t].existing = r]
    /\ UNCHANGED emails
    /\ SaveUnchanged

\* if existing_email.is_read != seen: existing_email.is_read = seen; db.session.commit()
\* return True.  The UPDATE goes to the row of the loaded primary key: the
\* row that equals the loaded one in every column but is_read
SaveUpdate(t) ==
    /\ sv[t].pc = "update"
    /\ IF sv[t].existing.is_read = sv[t].data.seen
       THEN emails' = emails
       ELSE \E r \in BagToSet(emails) :
                /\ [r EXCEPT !.is_read = FALSE] = [sv[t].existing EXCEPT !.is_read = FALSE]
                /\ emails' = update_row(emails, r, [r EXCEPT !.is_read = sv[t].data.seen])
    /\ sv' = [sv EXCEPT ![t].pc = "done", ![t].ret = "True"]
    /\ SaveUnchanged

\* db.session.add(new_email); db.session.commit(); return True
SaveInsert(t) ==
    /\ sv[t].pc = "insert"
    /\ emails' = insert_row(emails, new_email(sv[t].account, sv[t].email, sv[t].data))
    /\ sv' = [sv EXCEPT ![t].pc = "done", ![t].ret = "True"]
    /\ SaveUnchanged

\* datetime.now() advances by more than a day between calls
DayStep == 4 * ClockStep
TickDay ==
    /\ wall + DayStep <= MaxWall
    /\ wall' = wall + DayStep
    /\ UNCHANGED <<temp_emails, last, gone, accounts>>
    /\ UNCHANGED rlVars
    /\ UNCHANGED msgVars

IdleThread == [pc |-> "idle", now |-> 0, tmp |-> <<>>, recent |-> 0, ret |-> "none"]
NoCall == [op |-> "none", email |-> "", data |-> NoData, ok |-> FALSE, val |-> NoVal, t |-> 0, err |-> FALSE,
           ret |-> "None"]

\* the state after RateLimiter() and db.create_all()
Init ==
    /\ now = 0
    /\ request_counts = [ip \in IPs |-> [ep \in Endpoints |-> <<>>]]
    /\ calls = <<>>
    /\ thr = [t \in Threads |-> IdleThread]
    /\ alone = <<>>
    /\ wall = 0
    /\ temp_emails = <<>>
    /\ last = NoCall
    /\ gone = [e \in Emails |-> -1]
    /\ accounts = [e \in {} |-> NoData]
    /\ emails = EmptyBag
    /\ sv = [t \in Threads |-> IdleSave]

NextRL ==
    \/ Tick
    \/ \E ip \in IPs, ep \in Endpoints : check_rate_limit(ip, ep)

SpecRL == Init /\ [][NextRL]_vars

\* datetime.now() a second later
TickSecond ==
    /\ now + TicksPerSecond <= MaxTime
    /\ now' = now + TicksPerSecond
    /\ UNCHANGED <<request_counts, calls, thr, alone>>
    /\ UNCHANGED dbVars
    /\ UNCHANGED msgVars

\* a limiter with no request recorded for any ip and operation
InitQuota ==
    /\ now = 0
    /\ request_counts = [ip \in IPs |-> [ep \in Operations |-> <<>>]]
    /\ calls = <<>>
    /\ thr = [t \in Threads |-> IdleThread]
    /\ alone = [k \in IPs \X Operations |-> [ip \in IPs |-> [ep \in Operations |-> <<>>]]]
    /\ wall = 0
    /\ temp_emails = <<>>
    /\ last = NoCall
    /\ gone = [e \in Emails |-> -1]
    /\ accounts = [e \in {} |-> NoData]
    /\ emails = EmptyBag
    /\ sv = [t \in Threads |-> IdleSave]

\* one client calling one operation under the quota table
NextQuota ==
    \/ Advance
    \/ \E ip \in IPs, ep \in Operations :
            /\ \A other \in IPs \ {ip} : OnlyOperation(other, "")
            /\ OnlyOperation(ip, ep)
            /\ Request(ip, ep, rate_limits_get(ep))

SpecQuota == InitQuota /\ [][NextQuota]_vars

\* the pairs of SpecIso: a client on two operations, two clients on one operation
IsoKeys == {<<"10.0.0.1", "generate_email">>, <<"10.0.0.1", "delete_account">>, <<"10.0.0.2", "generate_email">>}

\* two clients calling two operations in any order
NextIso ==
    \/ TickSecond
    \/ \E k \in IsoKeys : Request(k[1], k[2], RateLimit(k[2]))

SpecIso == InitQuota /\ [][NextIso]_vars

(***************************************************************************)
(* The API handlers of api.py.  A request is handled in one step: the      *)
(* rate-limit check, then the calls of the handler on the store and on the *)
(* mail provider, whose responses are inputs.  last keeps the response and *)
(* the calls made, in their order.                                         *)
(***************************************************************************)
\* request.remote_addr of the requests, and the address they are about
ApiClient == "10.0.0.1"
ApiEmail == "a@x.com"
\* ''.join(random.choices(string.ascii_lowercase + string.digits, k=12))
Passwords == {"pw1", "pw2"}
\* the dicts generate_email passes to add_account: for a mail_tm domain the
\* provider's id and token (None when the token response has none), else two
\* uuids; ids and tokens are opaque strings, one value stands for them
GeneratedData(domain_type, password) ==
    IF domain_type = "mail_tm"
    THEN { [id |-> "id1", token |-> tok, password |-> password, domain_type |-> domain_type] :
             tok \in {"tok1", None} }
    ELSE { [id |-> "id1", token |-> "tok1", password |-> password, domain_type |-> domain_type] }
\* the message the provider holds for the address, not read there, and the
\* hydra:member lists of its responses
Inbox == {d \in EmailData : d.id = "m1" /\ ~d.seen}
Hydra == {<<>>} \cup {<<d>> : d \in Inbox}

\* the table after storage.add_account(email, account_data) at time t
add_account_rows(rows, email, account_data, t) ==
    IF integrity_error(rows, email, account_data) THEN rows
    ELSE cleanup_rows(Append(rows, new_account(rows, email, account_data, t)), t)

\* storage.get_account(email) at time t: the table after it and the dict returned
get_account_rows(rows, email, t) ==
    LET i == first_active(rows, email)
    IN  IF i = 0 THEN [rows |-> rows, ok |-> FALSE, val |-> NoVal]
        ELSE IF is_expired(rows[i], t)
        THEN [rows |-> remove_rows(rows, email), ok |-> FALSE, val |-> NoVal]
        ELSE [rows |-> rows, ok |-> TRUE,
              val |-> [id |-> rows[i].account_id, token |-> rows[i].token, password |-> rows[i].password]]

\* the tables storage.save_email(email_address, email_data) may leave
save_email_rows(mails, rows, email_address, email_data) ==
    LET account == first_active(rows, email_address)
        existing == filter_by(mails, email_data.id, account)
    IN  IF account = 0 THEN {mails}
        ELSE IF existing # {}
        THEN {update_row(mails, r, [r EXCEPT !.is_read = email_data.seen]) : r \in existing}
        ELSE IF parse_error(email_data) # "" \/ message_integrity_error(email_data) THEN {mails}
        ELSE {insert_row(mails, new_email(account, email_address, email_data))}

\* the tables storage.mark_email_as_read(email_address, message_id) may leave
mark_email_as_read_rows(mails, rows, email_address, message_id) ==
    LET found == filter_by(mails, message_id, first_active(rows, email_address))
    IN  IF found = {} THEN {mails}
        ELSE {update_row(mails, r, [r EXCEPT !.is_read = TRUE]) : r \in found}

\* the tables storage.delete_email(email_address, message_id) may leave
delete_email_rows(mails, rows, email_address, message_id) ==
    LET found == filter_by(mails, message_id, first_active(rows, email_address))
    IN  IF found = {} THEN {mails} ELSE {delete_row(mails, r) : r \in found}

\* what a handler did after the rate-limit check: the tables it leaves, the
\* status and body of its response and the calls it made
Outcome(rows, mails, status, body, trace) ==
    [temp_emails |-> rows, emails |-> mails, status |-> status, body |-> body, trace |-> trace]

\* get_domains after the check
get_domains_body ==
    { Outcome(temp_emails, emails, status, NoVal, <<"domain_manager.get_all_domains">>) :
        status \in {200, 500} }

\* generate_email after the check
generate_email_body(email) ==
    LET lookup == <<"domain_manager.get_domain_for_email_generation">>
    IN  {Outcome(temp_emails, emails, 400, NoVal, lookup)}
        \cup {Outcome(temp_emails, emails, 503, NoVal, lookup \o <<"requests.post">>)}
        \cup {Outcome(temp_emails, emails, 500, NoVal, lookup \o <<"requests.post">>)}
        \cup {Outcome(temp_emails, emails, 500, NoVal, lookup \o <<"requests.post", "requests.post">>)}
        \cup UNION {
               { Outcome(add_account_rows(temp_emails, email, account_data, wall), emails, 201,
                         [email |-> email, password |-> password],
                         IF domain_type = "mail_tm"
                         THEN lookup \o <<"requests.post", "requests.post", "storage.add_account">>
                         ELSE lookup \o <<"storage.add_account">>) :
                   account_data \in GeneratedData(domain_type, password) } :
               domain_type \in {"mail_tm", "custom"}, password \in Passwords }

\* the tables after storage.save_email of each message of the list, in turn
RECURSIVE save_all(_, _, _, _)
save_all(mails, rows, email_address, list) ==
    IF list = <<>> THEN {mails}
    ELSE UNION { save_all(m, rows, email_address, Tail(list)) :
                   m \in save_email_rows(mails, rows, email_address, Head(list)) }

\* get_emails after the check
api_get_emails_body(email_address) ==
    LET account == get_account_rows(temp_emails, email_address, wall)
    IN  IF ~account.ok
        THEN {Outcome(account.rows, emails, 404, NoVal, <<"storage.get_account">>)}
        ELSE {Outcome(account.rows, emails, status, NoVal, <<"storage.get_account", "requests.get">>) :
                status \in {500, 503}}
             \cup UNION {
                    { Outcome(account.rows, m, 200, NoVal,
                              <<"storage.get_account", "requests.get">>
                              \o [k \in 1..Len(list) |-> "storage.save_email"]
                              \o (IF list = <<>> THEN <<"storage.get_emails">> ELSE <<>>)) :
                        m \in save_all(emails, account.rows, email_address, list) } :
                    list \in Hydra }

\* get_email_content after the check
get_email_content_body(email_address, message_id) ==
    LET found == filter_by(emails, message_id, first_active(temp_emails, email_address))
        account == get_account_rows(temp_emails, email_address, wall)
        fetch == <<"storage.get_email", "storage.get_account", "requests.get">>
    IN  IF found # {}
        THEN { Outcome(temp_emails, m, 200, NoVal, <<"storage.get_email", "storage.mark_email_as_read">>) :
                 m \in mark_email_as_read_rows(emails, temp_emails, email_address, message_id) }
        ELSE IF ~account.ok
        THEN {Outcome(account.rows, emails, 404, NoVal, <<"storage.get_email", "storage.get_account">>)}
        ELSE {Outcome(account.rows, emails, status, NoVal, fetch) : status \in {500, 503}}
             \cup {Outcome(account.rows, emails, 503, NoVal, fetch \o <<"requests.patch">>)}
             \cup UNION {
                    { Outcome(account.rows, m, 200, NoVal, fetch \o <<"requests.patch", "storage.save_email">>) :
                        m \in save_email_rows(emails, account.rows, email_address, email_data) } :
                    email_data \in {d \in Inbox : d.id = message_id} }

\* delete_email after the check
api_delete_email_body(email_address, message_id) ==
    LET account == get_account_rows(temp_emails, email_address, wall)
        remote == <<"storage.get_account", "requests.delete">>
    IN  IF ~account.ok
        THEN {Outcome(account.rows, emails, 404, NoVal, <<"storage.get_account">>)}
        ELSE {Outcome(account.rows, emails, status, NoVal, remote) : status \in {500, 503}}
             \cup { Outcome(account.rows, m, 200, NoVal, remote \o <<"storage.delete_email">>) :
                      m \in delete_email_rows(emails, account.rows, email_address, message_id) }

\* delete_account after the check
delete_account_body(email_address) ==
    LET account == get_account_rows(temp_emails, email_address, wall)
        remote == <<"storage.get_account", "requests.delete">>
    IN  IF ~account.ok
        THEN {Outcome(account.rows, emails, 404, NoVal, <<"storage.get_account">>)}
        ELSE {Outcome(account.rows, emails, status, NoVal, remote) : status \in {500, 503}}
             \cup {Outcome(remove_rows(account.rows, email_address), emails, 200, NoVal,
                           remote \o <<"storage.remove_account">>)}

\* the record of a handled request
Response(endpoint, email, status, body, trace) ==
    [op |-> endpoint, email |-> email, data |-> NoData, ok |-> status < 400,
     val |-> [status |-> status, body |-> body, trace |-> trace],
     t |-> wall, err |-> FALSE, ret |-> "response"]

\* a handler: if not rate_limiter.check_rate_limit(client_ip, endpoint):
\* return 429; then its body with the outcome done
RunsBodyWhenThrottled(ip, endpoint, email, done) ==
    LET checked == check_rate_limit_on(request_counts, ip, endpoint, now, RateLimit(endpoint))
    IN  /\ request_counts' = checked.counts
        /\ calls' = <<[ip |-> ip, endpoint |-> endpoint, t |-> now, ok |-> checked.ok]>>
        /\ temp_emails' = done.temp_emails
        /\ emails' = done.emails
        /\ last' = Response(endpoint, email, IF checked.ok THEN done.status ELSE 429, done.body,
                            <<"rate_limiter.check_rate_limit">> \o done.trace)
        /\ UNCHANGED <<now, thr, alone, wall, gone, accounts, sv>>
Handler(ip, endpoint, email, done) ==
    LET checked == check_rate_limit_on(request_counts, ip, endpoint, now, RateLimit(endpoint))
    IN  /\ request_counts' = checked.counts
        /\ calls' = <<[ip |-> ip, endpoint |-> endpoint, t |-> now, ok |-> checked.ok]>>
        /\ IF checked.ok
           THEN /\ temp_emails' = done.temp_emails
                /\ emails' = done.emails
                /\ last' = Response(endpoint, email, done.status, done.body,
                                    <<"rate_limiter.check_rate_limit">> \o done.trace)
           ELSE /\ temp_emails' = temp_emails
                /\ emails' = emails
                /\ last' = Response(endpoint, email, 429, NoVal, <<"rate_limiter.check_rate_limit">>)
        /\ UNCHANGED <<now, thr, alone, wall, gone, accounts, sv>>

\* the six routes
api_get_domains(ip) ==
    \E done \in get_domains_body : Handler(ip, "get_domains", "", done)
api_generate_email(ip, email) ==
    \E done \in generate_email_body(email) : Handler(ip, "generate_email", email, done)
api_get_emails(ip, email_address) ==
    \E done \in api_get_emails_body(email_address) : Handler(ip, "get_emails", email_address, done)
api_get_email_content(ip, email_address, message_id) ==
    \E done \in get_email_content_body(email_address, message_id) :
        Handler(ip, "get_email_content", email_address, done)
api_delete_email(ip, email_address, message_id) ==
    \E done \in api_delete_email_body(email_address, message_id) :
        Handler(ip, "delete_email", email_address, done)
api_delete_account(ip, email_address) ==
    \E done \in delete_account_body(email_address) : Handler(ip, "delete_account", email_address, done)

\* a run that requests at most MaxRoutes of the six routes
Requested(ip, endpoint) ==
    Cardinality({ep \in Operations : ep = endpoint \/ request_counts[ip][ep] # <<>>}) <= MaxRoutes

\* one client, one address and one message, requests handled one at a time
NextApi ==
    \/ Requested(ApiClient, "get_domains") /\ api_get_domains(ApiClient)
    \/ Requested(ApiClient, "generate_email") /\ api_generate_email(ApiClient, ApiEmail)
    \/ Requested(ApiClient, "get_emails") /\ api_get_emails(ApiClient, ApiEmail)
    \/ Requested(ApiClient, "get_email_content") /\ api_get_email_content(ApiClient, ApiEmail, "m1")
    \/ Requested(ApiClient, "delete_email") /\ api_delete_email(ApiClient, ApiEmail, "m1")
    \/ Requested(ApiClient, "delete_account") /\ api_delete_account(ApiClient, ApiEmail)

SpecApi == InitQuota /\ [][NextApi]_vars

(***************************************************************************)
(* The in-memory TempMailStorage of storage.py, and the two stores called  *)
(* side by side with the same arguments at the same clock.                 *)
(***************************************************************************)
\* the dict without the key email
without(accts, email) == [e \in DOMAIN accts \ {email} |-> accts[e]]

\* TempMailStorage._cleanup_old_accounts at time t: remove_account for every
\* entry with now - created_at > timedelta(hours=24)
mem_cleanup(accts, t) ==
    [e \in {x \in DOMAIN accts : ~(t - accts[x].created_at > Hours24)} |-> accts[e]]

\* TempMailStorage.add_account: stamps created_at, stores under the key
\* email, cleans up and returns True
mem_add_account(accts, email, account_data, t) ==
    LET stamped == [id |-> account_data.id, token |-> account_data.token,
                    password |-> account_data.password, domain_type |-> account_data.domain_type,
                    created_at |-> t]
    IN  [accounts |-> mem_cleanup([e \in DOMAIN accts \cup {email} |->
                                      IF e = email THEN stamped ELSE accts[e]], t),
         ok |-> TRUE, val |-> NoVal]

\* TempMailStorage.get_account: None when the key is missing or the entry is
\* expired, which removes it; else the stored dict
mem_get_account(accts, email, t) ==
    IF email \notin DOMAIN accts THEN [accounts |-> accts, ok |-> FALSE, val |-> NoVal]
    ELSE IF t - accts[email].created_at > Hours24
    THEN [accounts |-> without(accts, email), ok |-> FALSE, val |-> NoVal]
    ELSE [accounts |-> accts, ok |-> TRUE,
          val |-> [id |-> accts[email].id, token |-> accts[email].token,
                   password |-> accts[email].password]]

\* TempMailStorage.remove_account: deletes the key and returns True, False when it is missing
mem_remove_account(accts, email) ==
    IF email \in DOMAIN accts
    THEN [accounts |-> without(accts, email), ok |-> TRUE, val |-> NoVal]
    ELSE [accounts |-> accts, ok |-> FALSE, val |-> NoVal]

\* the record of one call made on both stores: ok and val of the database
\* store, mem_ok and mem_val of the in-memory store
Compared(op, email, data, db_ok, db_val, mem) ==
    [op |-> op, email |-> email, data |-> data, ok |-> db_ok, val |-> db_val, t |-> wall,
     err |-> FALSE, ret |-> "both", mem_ok |-> mem.ok, mem_val |-> mem.val]

both_add_account(email, account_data) ==
    LET mem == mem_add_account(accounts, email, account_data, wall)
    IN  /\ temp_emails' = add_account_rows(temp_emails, email, account_data, wall)
        /\ accounts' = mem.accounts
        /\ last' = Compared("add", email, account_data,
                            ~integrity_error(temp_emails, email, account_data), NoVal, mem)
        /\ UNCHANGED <<wall, gone>>
        /\ UNCHANGED rlVars
        /\ UNCHANGED msgVars

both_get_account(email) ==
    LET mem == mem_get_account(accounts, email, wall)
        row == get_account_rows(temp_emails, email, wall)
    IN  /\ temp_emails' = row.rows
        /\ accounts' = mem.accounts
        /\ last' = Compared("get", email, NoData, row.ok, row.val, mem)
        /\ UNCHANGED <<wall, gone>>
        /\ UNCHANGED rlVars
        /\ UNCHANGED msgVars

both_remove_account(email) ==
    LET mem == mem_remove_account(accounts, email)
    IN  /\ temp_emails' = remove_rows(temp_emails, email)
        /\ accounts' = mem.accounts
        /\ last' = Compared("remove", email, NoData, first_by_email(temp_emails, email) # 0, NoVal, mem)
        /\ UNCHANGED <<wall, gone>>
        /\ UNCHANGED rlVars
        /\ UNCHANGED msgVars

\* the dicts of requests whose provider gave an id and a token
Registered == {d \in AccountData : d.token # None}

NextEquiv ==
    \/ TickWall
    \/ \E email \in Emails, account_data \in Registered : both_add_account(email, account_data)
    \/ \E email \in Emails : both_get_account(email)
    \/ \E email \in Emails : both_remove_account(email)

SpecEquiv == Init /\ [][NextEquiv]_vars

NextConc ==
    \/ TickInWindow
    \/ \E t \in Threads :
        \/ Begin(t)
        \/ CleanupRead(t)
        \/ CleanupWrite(t)
        \/ Count(t)
        \/ Check(t)
        \/ AddTest(t)
        \/ IncrRead(t)
        \/ IncrWrite(t)
        \/ AppendBucket(t)

SpecConc == Init /\ [][NextConc]_vars

NextDB ==
    \/ TickWall
    \/ \E email \in Emails, account_data \in AccountData \cup {NoIdData} : add_account(email, account_data)
    \/ \E email \in Emails : get_account(email)
    \/ \E email \in Emails : remove_account(email)
    \/ _cleanup_old_accounts

SpecDB == Init /\ [][NextDB]_vars

\* the accounts of one provider registration
OneAccount == {d \in AccountData : d.id = "id1"}

NextMsg ==
    \/ TickDay
    \/ \E email \in Emails, account_data \in OneAccount \cup {NoIdData} : add_account(email, account_data)
    \/ \E email \in Emails, account_data \in OneAccount : add_account_cleanup_error(email, account_data)
    \/ \E email \in Emails : get_account(email)
    \/ \E email \in Emails : remove_account(email)
    \/ _cleanup_old_accounts
    \/ \E email \in Emails : \E email_data \in Mailbox(email) : save_email(email, email_data)
    \/ \E email \in Emails, message_id \in MessageIds : mark_email_as_read(email, message_id)
    \/ \E email \in Emails, message_id \in MessageIds : delete_email(email, message_id)
    \/ \E email \in Emails : get_emails(email)
    \/ \E email \in Emails, message_id \in MessageIds : get_email(email, message_id)
    \/ \E op \in FailingOps, email \in Emails :
            \E data \in FailingData(op) : SQLAlchemyError(op, email, data)

SpecMsg == Init /\ [][NextMsg]_vars

NextSave ==
    \/ \E email \in Emails, account_data \in OneAccount : add_account(email, account_data)
    \/ \E t \in Threads :
        \/ \E email \in Emails, email_data \in EmailData : SaveAccount(t, email, email_data)
        \/ SaveExisting(t)
        \/ SaveUpdate(t)
        \/ SaveInsert(t)

SpecSave == Init /\ [][NextSave]_vars

(***************************************************************************)
(* Properties of the rate limiter.                                         *)
(***************************************************************************)
RECURSIVE CallsOf(_, _, _)
CallsOf(log, ip, ep) ==
    IF log = <<>> THEN <<>>
    ELSE IF Head(log).ip = ip /\ Head(log).endpoint = ep
         THEN <<Head(log)>> \o CallsOf(Tail(log), ip, ep)
         ELSE CallsOf(Tail(log), ip, ep)

RECURSIVE AdmittedTimes(_)
AdmittedTimes(log) ==
    IF log = <<>> THEN <<>>
    ELSE IF Head(log).ok THEN <<Head(log).t>> \o AdmittedTimes(Tail(log))
         ELSE AdmittedTimes(Tail(log))

AllDone == \A t \in Threads : thr[t].pc = "done"
Returned(r) == {t \in Threads : thr[t].ret = r}

\* C1: when more than max_requests concurrent check_rate_limit calls for one
\* (ip, endpoint) have all returned within one window, exactly max_requests of
\* them returned True and the others returned False.
C1_ExactlyMaxAdmitted ==
    (AllDone /\ NThreads > max_requests) =>
        /\ Cardinality(Returned("True")) = max_requests
        /\ Cardinality(Returned("False")) = NThreads - max_requests

\* C2: starting from an empty bucket list, of the sequential calls for one
\* (ip, endpoint) made less than the timeframe after the first one, the first
\* max_requests return True and every further one returns False.
C2_FirstMaxAdmittedThenRejected ==
    \A ip \in IPs, ep \in Endpoints :
        LET L == CallsOf(calls, ip, ep)
        IN  \A i \in 1..Len(L) :
                L[i].t - L[1].t < RateLimit(ep)[2] => (L[i].ok <=> i <= RateLimit(ep)[1])

C2_Witness ==
    \E ip \in IPs, ep \in Endpoints :
        LET L == CallsOf(calls, ip, ep)
            m == RateLimit(ep)[1]
        IN  /\ Len(L) > m + 1
            /\ L[m + 2].t - L[1].t < RateLimit(ep)[2]
            /\ L[m].t > L[1].t
            /\ L[m].ok /\ ~L[m + 1].ok /\ ~L[m + 2].ok

\* C3 as claimed: any max_requests + 1 admitted calls of one (ip, endpoint)
\* span at least the timeframe (no interval shorter than the timeframe holds
\* more than max_requests admitted calls).
C3_StrictSlidingWindow ==
    \A ip \in IPs, ep \in Endpoints :
        LET A == AdmittedTimes(CallsOf(calls, ip, ep))
            m == RateLimit(ep)[1]
        IN  \A i \in 1..Len(A) : i + m <= Len(A) => A[i + m] - A[i] >= RateLimit(ep)[2]

\* C3 as amended: any max_requests + 1 admitted calls of one (ip, endpoint)
\* span more than the timeframe less one second (no interval of timeframe - 1
\* seconds or less holds more than max_requests admitted calls).
C3_WindowLessOneSecond ==
    \A ip \in IPs, ep \in Endpoints :
        LET A == AdmittedTimes(CallsOf(calls, ip, ep))
            m == RateLimit(ep)[1]
        IN  \A i \in 1..Len(A) :
                i + m <= Len(A) => A[i + m] - A[i] > RateLimit(ep)[2] - TicksPerSecond

\* max_requests + 1 admitted calls within less than the timeframe, the earliest
\* of them coalesced into a bucket stamped before it was made
C3_Witness ==
    \E ip \in IPs, ep \in Endpoints :
        LET A == AdmittedTimes(CallsOf(calls, ip, ep))
            m == RateLimit(ep)[1]
        IN  \E i \in 1..Len(A) :
                /\ i > 1 /\ i + m <= Len(A)
                /\ A[i] > A[i - 1] /\ A[i] - A[i - 1] < TicksPerSecond
                /\ A[i + m] - A[i] < RateLimit(ep)[2]

\* C4: when a call for (ip, endpoint) is made a timeframe or more after the
\* previous call for it, that call and the following ones, up to max_requests
\* calls made within less than a timeframe, all return True.
C4_Replenishment ==
    \A ip \in IPs, ep \in Endpoints :
        LET L == CallsOf(calls, ip, ep)
            m == RateLimit(ep)[1]
            w == RateLimit(ep)[2]
        IN  \A i \in 2..Len(L) :
                L[i].t - L[i - 1].t >= w =>
                    \A j \in i..Len(L) : (j - i < m /\ L[j].t - L[i].t < w) => L[j].ok

\* the quota was used up, the timeframe passed without a call, and the next
\* max_requests calls were made
C4_Witness ==
    \E ip \in IPs, ep \in Endpoints :
        LET L == CallsOf(calls, ip, ep)
            m == RateLimit(ep)[1]
            w == RateLimit(ep)[2]
        IN  \E i \in 2..Len(L) :
                /\ ~L[i - 1].ok
                /\ L[i].t - L[i - 1].t >= w
                /\ i + m - 1 <= Len(L)
                /\ L[i + m - 1].t - L[i].t < w
                /\ L[i + m - 1].ok

\* C5: a call that returns False leaves the bucket list as it was, less a
\* prefix of buckets that are a timeframe old or older.
C5_RejectedRecordsNothing ==
    [][(Len(calls') = Len(calls) + 1 /\ ~calls'[Len(calls')].ok) =>
        LET c == calls'[Len(calls')]
            before == request_counts[c.ip][c.endpoint]
            after == request_counts'[c.ip][c.endpoint]
        IN  \E k \in 0..Len(before) :
                /\ after = SubSeq(before, k + 1, Len(before))
                /\ \A i \in 1..k : c.t - before[i][1] >= RateLimit(c.endpoint)[2]
      ]_vars

\* two rejected calls in a row, at different times, with buckets recorded
C5_Witness ==
    /\ Len(calls) >= 2
    /\ LET c == calls[Len(calls)]
           b == calls[Len(calls) - 1]
       IN  /\ ~c.ok /\ ~b.ok
           /\ c.ip = b.ip /\ c.endpoint = b.endpoint
           /\ c.t > b.t
           /\ request_counts[c.ip][c.endpoint] # <<>>


(***************************************************************************)
(* Properties of the account store.                                        *)
(***************************************************************************)
ActiveRows(rows, email) == {i \in DOMAIN rows : rows[i].email = email /\ rows[i].is_active}
HasNone(account_data) ==
    \/ ~HasKeys(account_data)
    \/ account_data.id = None \/ account_data.token = None \/ account_data.password = None
\* this step is a call of op: the record of the last call changes to one of op
CallStep(op) == last' # last /\ last'.op = op

\* C6: each email address has at most one row with is_active = True.
C6_AtMostOneActive ==
    \A email \in Emails : Cardinality(ActiveRows(temp_emails, email)) <= 1

\* both emails have an active account and a further add_account for one of them was made
C6_Witness ==
    /\ \A email \in Emails : ActiveRows(temp_emails, email) # {}
    /\ last.op = "add" /\ ~HasNone(last.data)

\* C7: add_account(email, data) called while an active account for email
\* exists returns False (data carrying id, token and password) and leaves the
\* table, and so the existing row, as it was.
C7_ConflictRejected ==
    [][(CallStep("add") /\ ActiveRows(temp_emails, last'.email) # {}) =>
        /\ last'.ok = FALSE
        /\ HasKeys(last'.data) => last'.ret = "False"
        /\ Len(temp_emails') = Len(temp_emails)
        /\ \A i \in ActiveRows(temp_emails, last'.email) : temp_emails'[i] = temp_emails[i]
      ]_vars

\* an add_account with other credentials was refused for an email whose account is active
C7_Witness ==
    /\ last.op = "add" /\ ~last.ok /\ ~HasNone(last.data)
    /\ \E i \in ActiveRows(temp_emails, last.email) :
            /\ temp_emails[i].account_id # last.data.id
            /\ temp_emails[i].created_at < last.t

\* C8: get_account(email) returns an account only when the row is active and
\* now - created_at <= 24h, and then the row's id, token and password; when
\* the row is active and now - created_at > 24h it returns None and the row
\* is inactive afterwards; and once a get_account call has found the account
\* expired, every get_account(email) returns None.
C8_GetOrExpire ==
    [][CallStep("get") =>
        LET email == last'.email
            i == first_active(temp_emails, email)
        IN  /\ last'.ok =>
                /\ i # 0
                /\ wall - temp_emails[i].created_at <= Hours24
                /\ last'.val = [id |-> temp_emails[i].account_id, token |-> temp_emails[i].token,
                                password |-> temp_emails[i].password]
            /\ (i # 0 /\ wall - temp_emails[i].created_at > Hours24) =>
                /\ ~last'.ok
                /\ ActiveRows(temp_emails', email) = {}
            /\ gone[email] >= 0 => ~last'.ok
      ]_vars

\* a get_account call made after the one that found the account expired
C8_Witness ==
    /\ last.op = "get" /\ ~last.ok
    /\ gone[last.email] >= 0
    /\ last.t > gone[last.email]
    /\ \E i \in DOMAIN temp_emails : temp_emails[i].email = last.email /\ ~temp_emails[i].is_active

\* C9: a get_account(email) that immediately follows a successful
\* add_account(email, data) returns data, every supplied field included.
C9_RoundTrip ==
    [][(last.op = "add" /\ last.ok /\ CallStep("get") /\ last'.email = last.email /\ last'.t = last.t) =>
        /\ last'.ok
        /\ last'.val = last.data
      ]_vars

\* C10: remove_account(email) returns True exactly when a row for email
\* existed; it then leaves no active row for email; rows of other emails are
\* unchanged; and a get_account(email) that follows a remove_account(email)
\* that returned True returns None.
C10_Remove ==
    [][/\ CallStep("remove") =>
            LET email == last'.email
            IN  /\ last'.ok = (\E i \in DOMAIN temp_emails : temp_emails[i].email = email)
                /\ ActiveRows(temp_emails', email) = {}
                /\ DOMAIN temp_emails' = DOMAIN temp_emails
                /\ \A i \in DOMAIN temp_emails :
                        IF temp_emails[i].email = email
                        THEN [temp_emails'[i] EXCEPT !.is_active = TRUE] = [temp_emails[i] EXCEPT !.is_active = TRUE]
                        ELSE temp_emails'[i] = temp_emails[i]
       /\ (last.op = "remove" /\ last.ok /\ CallStep("get") /\ last'.email = last.email) => ~last'.ok
      ]_vars

\* remove_account returned True for an email whose row was already inactive,
\* while the other email's account is active
C10_Witness ==
    /\ last.op = "remove" /\ last.ok
    /\ \E i \in DOMAIN temp_emails :
            /\ temp_emails[i].email = last.email
            /\ ~temp_emails[i].is_active
    /\ \E i \in DOMAIN temp_emails : temp_emails[i].email # last.email /\ temp_emails[i].is_active

\* C11: _cleanup_old_accounts marks inactive every active row with
\* now - created_at > 24h and changes no other row; run again at the same
\* instant it changes nothing.
C11_Cleanup ==
    [][CallStep("cleanup") =>
        /\ DOMAIN temp_emails' = DOMAIN temp_emails
        /\ \A i \in DOMAIN temp_emails :
                IF temp_emails[i].is_active /\ wall - temp_emails[i].created_at > Hours24
                THEN temp_emails'[i] = [temp_emails[i] EXCEPT !.is_active = FALSE]
                ELSE temp_emails'[i] = temp_emails[i]
        /\ cleanup_rows(temp_emails', wall') = temp_emails'
      ]_vars

\* a cleanup has run with one account older than 24h, now inactive, and one
\* account exactly 24h old, still active
C11_Witness ==
    /\ last.op = "cleanup" /\ last.t = wall
    /\ \E i \in DOMAIN temp_emails :
            ~temp_emails[i].is_active /\ wall - temp_emails[i].created_at > Hours24
    /\ \E i \in DOMAIN temp_emails :
            temp_emails[i].is_active /\ wall - temp_emails[i].created_at = Hours24

\* C12: when add_account returns, whatever its result, no row with
\* now - created_at > 24h is active.
C12_AddAlwaysCleansUp ==
    [][(CallStep("add") /\ last'.ret \in {"True", "False"}) =>
        \A i \in DOMAIN temp_emails' :
            temp_emails'[i].is_active => wall' - temp_emails'[i].created_at <= Hours24
      ]_vars

\* C13: add_account(email, newData) succeeds when the only row for email is inactive.
C13_ReAddAfterInactive ==
    [][(/\ CallStep("add") /\ ~HasNone(last'.data)
        /\ first_by_email(temp_emails, last'.email) # 0
        /\ ActiveRows(temp_emails, last'.email) = {}) => last'.ok
      ]_vars


(***************************************************************************)
(* Properties of the message store.                                        *)
(***************************************************************************)
\* the account row that holds the email, active or not (0: none)
OwnerRow(email) == first_by_email(temp_emails, email)
InactiveOwner(email) == \E i \in DOMAIN temp_emails : temp_emails[i].email = email /\ ~temp_emails[i].is_active
\* the step is save_email's merge of the row r with the incoming seen value
MergesReadFlag(r) ==
    /\ last'.ret = "True"
    /\ emails' = update_row(emails, r, [r EXCEPT !.is_read = last'.data.seen])

\* C14, as stated: with a working backend, save_email(owner, msg) for a message
\* id already stored under the owner's account returns True, sets the stored
\* is_read to the incoming seen and changes nothing else in the table: no other
\* column of the row, no other row, no new row.
C14_UpsertMerge ==
    [][(/\ CallStep("save") /\ ~last'.err
        /\ OwnerRow(last'.email) # 0
        /\ filter_by(emails, last'.data.id, OwnerRow(last'.email)) # {})
       => \E r \in filter_by(emails, last'.data.id, OwnerRow(last'.email)) : MergesReadFlag(r)
      ]_vars

\* C14, amended: the same, for an owner whose account is active.  (For an
\* owner that was removed or marked inactive save_email returns False: C16.)
C14_UpsertMergeActiveOwner ==
    [][(/\ CallStep("save") /\ ~last'.err
        /\ OwnerRow(last'.email) # 0
        /\ temp_emails[OwnerRow(last'.email)].is_active
        /\ filter_by(emails, last'.data.id, OwnerRow(last'.email)) # {})
       => \E r \in filter_by(emails, last'.data.id, OwnerRow(last'.email)) : MergesReadFlag(r)
      ]_vars

\* a save of a message whose stored row has the incoming read state and
\* still the subject and the date of another copy of the message
C14_Witness ==
    /\ last.op = "save" /\ last.ret = "True" /\ ~last.err /\ last.data.seen
    /\ \E r \in filter_by(emails, last.data.id, OwnerRow(last.email)) :
            /\ r.is_read
            /\ r.subject # last.data.subject
            /\ r.created_at # fromisoformat(replace_Z(last.data.createdAt))
    /\ BagCardinality(emails) = 1

\* C15: in every state reached by save_email calls that run concurrently, the
\* emails table holds at most one row per (message_id, temp_email_id).
C15_OneRowPerMessage ==
    \A r1, r2 \in BagToSet(emails) :
        (r1.message_id = r2.message_id /\ r1.temp_email_id = r2.temp_email_id)
            => (r1 = r2 /\ CopiesIn(r1, emails) = 1)

\* C16: save_email for an email address that has no active account (never
\* added, removed, or marked inactive) returns False and leaves the emails
\* table as it was.
C16_SaveNeedsActiveOwner ==
    [][(CallStep("save") /\ first_active(temp_emails, last'.email) = 0)
       => (last'.ret = "False" /\ emails' = emails)]_vars

\* a valid message refused for an owner whose account is inactive
C16_Witness ==
    /\ last.op = "save" /\ last.ret = "False" /\ ~last.err
    /\ last.data \in EmailData
    /\ InactiveOwner(last.email)
    /\ last.t = wall

\* C17: an account that is inactive stays inactive under its email in every
\* later state, and for the email of an inactive account get_emails returns
\* the empty list and get_email returns None, whatever messages are stored
\* under it.
C17_Cascade ==
    [][/\ \A i \in DOMAIN temp_emails :
            ~temp_emails[i].is_active =>
                /\ i \in DOMAIN temp_emails'
                /\ temp_emails'[i].email = temp_emails[i].email
                /\ ~temp_emails'[i].is_active
       /\ (CallStep("get_emails") /\ InactiveOwner(last'.email)) => last'.val = [list |-> <<>>]
       /\ (CallStep("get_email") /\ InactiveOwner(last'.email)) => last'.ret = "None"
      ]_vars

\* get_emails on an owner that was removed while the table holds two of its messages
C17_Witness ==
    /\ last.op = "get_emails" /\ last.val = [list |-> <<>>]
    /\ InactiveOwner(last.email)
    /\ \E r1, r2 \in BagToSet(emails) :
            /\ r1 # r2
            /\ r1.temp_email_id = OwnerRow(last.email)
            /\ r2.temp_email_id = OwnerRow(last.email)

\* C18: for an owner whose account is older than 24 hours, marked inactive or
\* not, get_emails returns the empty list, get_email returns None and
\* save_email, mark_email_as_read and delete_email return False.
C18_ExpiryInvalidatesMessages ==
    [][(/\ last' # last
        /\ last'.op \in {"get_emails", "get_email", "save", "mark", "delete"}
        /\ OwnerRow(last'.email) # 0
        /\ is_expired(temp_emails[OwnerRow(last'.email)], wall))
       => IF last'.op = "get_emails" THEN last'.val = [list |-> <<>>]
          ELSE IF last'.op = "get_email" THEN last'.ret = "None"
          ELSE last'.ret = "False"
      ]_vars

\* C19: a call of add_account, remove_account, _cleanup_old_accounts,
\* save_email, mark_email_as_read or delete_email during which the backend
\* raises SQLAlchemyError returns False and leaves both tables as they were.
C19_BackendFailure ==
    [][(last' # last /\ last'.err)
       => (last'.ret = "False" /\ temp_emails' = temp_emails /\ emails' = emails)]_vars

\* C20: no call of the store ends in an exception.
C20_NoEscape == last.ret \notin Exceptions

\* C22: when mark_email_as_read(owner, id) has returned True and the next call
\* of the store is save_email(owner, msg) for the same id, the stored message
\* is still read after it, whatever seen value msg carries.
C22_ReadSurvivesSave ==
    [][(/\ last.op = "mark" /\ last.ret = "True"
        /\ CallStep("save")
        /\ last'.email = last.email
        /\ last'.data.id = last.data.id)
       => \A r \in filter_by(emails', last.data.id, OwnerRow(last.email)) : r.is_read
      ]_vars

\* the rows stored under the account, as a bag
StoredUnder(rows, account) ==
    [r \in {x \in BagToSet(rows) : x.temp_email_id = account} |-> CopiesIn(r, rows)]

\* C23: get_emails(owner) for an owner with an active account returns a list
\* that holds the dict of every row stored under that account once and
\* nothing else, in descending order of created_at.
C23_GetEmails ==
    [][(CallStep("get_emails") /\ first_active(temp_emails, last'.email) # 0)
       => LET stored == StoredUnder(emails, first_active(temp_emails, last'.email))
              list == last'.val.list
          IN  /\ Len(list) = BagCardinality(stored)
              /\ \A r \in BagToSet(stored) :
                    Cardinality({k \in DOMAIN list : list[k] = to_dict(r, FALSE)}) = CopiesIn(r, stored)
              /\ \A k \in 1..(Len(list) - 1) : list[k].createdAt >= list[k + 1].createdAt
      ]_vars

\* a list of two messages of different dates while another owner has a message too
C23_Witness ==
    /\ last.op = "get_emails" /\ last.t = wall
    /\ first_active(temp_emails, last.email) # 0
    /\ Len(last.val.list) = 2
    /\ last.val.list[1].createdAt > last.val.list[2].createdAt
    /\ \E r \in BagToSet(emails) : r.recipient # last.email
    /\ BagCardinality(StoredUnder(emails, first_active(temp_emails, last.email))) = 2

\* C24: for calls that run one after the other on a working backend,
\* mark_email_as_read(owner, id) returns True
\* exactly when a message id is stored under the active account of owner; it
\* then sets is_read of one row of that message and changes nothing else, and
\* a second call finds nothing left to change: every row of the message is
\* read.  Otherwise it returns False and changes nothing.
C24_MarkAsRead ==
    [][(CallStep("mark") /\ ~last'.err)
       => LET account == first_active(temp_emails, last'.email)
              found == filter_by(emails, last'.data.id, account)
          IN  /\ temp_emails' = temp_emails
              /\ IF account # 0 /\ found # {}
                 THEN /\ last'.ret = "True"
                      /\ \E r \in found : emails' = update_row(emails, r, [r EXCEPT !.is_read = TRUE])
                      /\ \A r \in filter_by(emails', last'.data.id, account) : r.is_read
                 ELSE /\ last'.ret = "False"
                      /\ emails' = emails
      ]_vars

\* a message marked as read while another message of the owner and the message
\* of the same id of another owner stay unread
C24_Witness ==
    /\ last.op = "mark" /\ last.ret = "True" /\ last.t = wall
    /\ \E r \in filter_by(emails, last.data.id, first_active(temp_emails, last.email)) : r.is_read
    /\ \E r \in BagToSet(emails) :
            /\ r.recipient = last.email /\ r.message_id # last.data.id /\ ~r.is_read
    /\ \E r \in BagToSet(emails) :
            /\ r.recipient # last.email /\ r.message_id = last.data.id /\ ~r.is_read

\* C25: for calls that run one after the other on a working backend,
\* delete_email(owner, id) returns True exactly
\* when a message id is stored under the active account of owner; it then
\* removes one row of that message and changes nothing else, and leaves no row
\* of the message, so that get_email(owner, id) returns None and a second
\* delete_email(owner, id) returns False.  Otherwise it returns False and
\* changes nothing.
C25_Delete ==
    [][(CallStep("delete") /\ ~last'.err)
       => LET account == first_active(temp_emails, last'.email)
              found == filter_by(emails, last'.data.id, account)
          IN  /\ temp_emails' = temp_emails
              /\ IF account # 0 /\ found # {}
                 THEN /\ last'.ret = "True"
                      /\ \E r \in found : emails' = delete_row(emails, r)
                      /\ filter_by(emails', last'.data.id, account) = {}
                 ELSE /\ last'.ret = "False"
                      /\ emails' = emails
      ]_vars

\* a message deleted while another message of the owner and the message of
\* the same id of another owner stay
C25_Witness ==
    /\ last.op = "delete" /\ last.ret = "True" /\ last.t = wall
    /\ filter_by(emails, last.data.id, first_active(temp_emails, last.email)) = {}
    /\ \E r \in BagToSet(emails) : r.recipient = last.email /\ r.message_id # last.data.id
    /\ \E r \in BagToSet(emails) : r.recipient # last.email /\ r.message_id = last.data.id

\* C27: with sequential calls and a clock that never goes back, every bucket
\* list is in ascending order of timestamp, every bucket counts at least one
\* request, consecutive buckets are at least one second apart, and the counts
\* of a list sum to at most max_requests.
C27_BucketListInvariant ==
    \A ip \in IPs, ep \in Endpoints :
        LET buckets == request_counts[ip][ep]
        IN  /\ \A k \in 1..(Len(buckets) - 1) :
                    /\ buckets[k][1] < buckets[k + 1][1]
                    /\ buckets[k + 1][1] - buckets[k][1] >= TicksPerSecond
            /\ \A k \in 1..Len(buckets) : buckets[k][2] >= 1
            /\ SumCounts(buckets) <= RateLimit(ep)[1]

\* a full list of two buckets exactly one second apart
C27_Witness ==
    \E ip \in IPs, ep \in Endpoints :
        LET buckets == request_counts[ip][ep]
        IN  /\ Len(buckets) = 2
            /\ buckets[2][1] - buckets[1][1] = TicksPerSecond
            /\ SumCounts(buckets) = RateLimit(ep)[1]

\* the buckets with timestamp >= t - w, in their order
NotOlderThan(buckets, t, w) == SelectSeq(buckets, LAMBDA b : b[1] >= t - w)

\* C28: a check_rate_limit call at time now with window w drops exactly the
\* buckets with timestamp < now - w; a bucket with timestamp = now - w is kept
\* and its count is part of the recent requests the call compares with
\* max_requests.
C28_PruningBoundary ==
    [][Len(calls') = Len(calls) + 1
       => LET call == calls'[Len(calls')]
              m == RateLimit(call.endpoint)[1]
              w == RateLimit(call.endpoint)[2]
              kept == NotOlderThan(request_counts[call.ip][call.endpoint], call.t, w)
          IN  /\ call.ok = (SumCounts(kept) < m)
              /\ request_counts'[call.ip][call.endpoint]
                    = IF call.ok THEN _add_request(kept, call.t) ELSE kept]_vars

\* the quota table as the claim states it: (maxRequests, windowSeconds)
QuotaTable(op) ==
    CASE op = "generate_email" -> <<5, 60>>
      [] op = "get_emails" -> <<60, 60>>
      [] op = "get_email_content" -> <<60, 60>>
      [] op = "delete_email" -> <<30, 60>>
      [] op = "delete_account" -> <<5, 60>>
      [] OTHER -> <<20, 60>>

\* C26: a check_rate_limit(ip, op) call returns True exactly when the buckets
\* of (ip, op) less than windowSeconds old count fewer than maxRequests
\* requests, with (maxRequests, windowSeconds) taken from the quota table:
\* (5, 60) for generate_email, (60, 60) for get_emails and get_email_content,
\* (30, 60) for delete_email, (5, 60) for delete_account and (20, 60) for any
\* other name; those buckets are what the call keeps of the list.
C26_QuotaTable ==
    [][(calls' # calls \/ request_counts' # request_counts)
       => LET call == calls'[1]
              m == QuotaTable(call.endpoint)[1]
              w == QuotaTable(call.endpoint)[2] * TicksPerSecond
              kept == Filter(request_counts[call.ip][call.endpoint], call.t, w)
          IN  /\ call.ok = (SumCounts(kept) < m)
              /\ request_counts'[call.ip][call.endpoint]
                    = IF call.ok THEN _add_request(kept, call.t) ELSE kept]_vars

\* get_domains, which is not in the table, rejected at its 21st request one
\* tick before the first bucket leaves the window
C26_Witness ==
    /\ calls # <<>>
    /\ calls[1].endpoint = "get_domains" /\ ~calls[1].ok
    /\ calls[1].t = 60 * TicksPerSecond - 1
    /\ Len(request_counts[calls[1].ip]["get_domains"]) = 2
    /\ SumCounts(request_counts[calls[1].ip]["get_domains"]) = 20

\* C29: a check_rate_limit(ip, op) call changes the list of (ip, op) only, and
\* every call returns what it returns in the run that makes the calls of its
\* (ip, op) only, at the same times, and leaves the same list of (ip, op).
C29_Isolation ==
    [][(calls' # calls \/ request_counts' # request_counts)
       => LET call == calls'[1]
          IN  /\ \A ip \in IPs, ep \in Operations :
                    <<ip, ep>> # <<call.ip, call.endpoint>>
                        => request_counts'[ip][ep] = request_counts[ip][ep]
              /\ call.ok = call.alone
              /\ \A k \in IsoKeys : alone'[k][k[1]][k[2]] = request_counts'[k[1]][k[2]]]_vars

\* a call rejected while another operation of the same client and the same
\* operation of another client have requests recorded and room left
C29_Witness ==
    /\ calls # <<>>
    /\ ~calls[1].ok /\ ~calls[1].alone /\ calls[1].t = now
    /\ \E ep \in Operations \ {calls[1].endpoint} :
            /\ request_counts[calls[1].ip][ep] # <<>>
            /\ recent_requests(request_counts[calls[1].ip][ep], now, RateLimit(ep)[2]) < RateLimit(ep)[1]
    /\ \E ip \in IPs \ {calls[1].ip} :
            /\ request_counts[ip][calls[1].endpoint] # <<>>
            /\ recent_requests(request_counts[ip][calls[1].endpoint], now, RateLimit(calls[1].endpoint)[2])
                  < RateLimit(calls[1].endpoint)[1]

\* a step of a handler
Handled == calls' # calls \/ last' # last \/ request_counts' # request_counts \/ temp_emails' # temp_emails \/ emails' # emails

\* C21: every handler calls check_rate_limit before any call on the store or
\* on the mail provider; when the check returns False the handler answers 429
\* and makes no other call, and no account, no message and no list of
\* request counts has changed.
C21_ThrottledFirst ==
    [][Handled
       => /\ last'.val.trace[1] = "rate_limiter.check_rate_limit"
          /\ \A k \in 2..Len(last'.val.trace) : last'.val.trace[k] # "rate_limiter.check_rate_limit"
          /\ calls'[1].endpoint = last'.op
          /\ ~calls'[1].ok
                => /\ last'.val.status = 429
                   /\ Len(last'.val.trace) = 1
                   /\ temp_emails' = temp_emails
                   /\ emails' = emails
                   /\ request_counts' = request_counts]_vars

\* a throttled delete_account while the account and a message of it are stored
C21_Witness ==
    /\ last.op = "delete_account" /\ last.val.status = 429
    /\ calls # <<>> /\ ~calls[1].ok
    /\ first_active(temp_emails, last.email) # 0
    /\ emails # EmptyBag

\* C30: when generate_email answers 201 with an email and a password, the
\* request stored the account: get_account(email) right after it returns an
\* account with the password of the response.
C30_GeneratedIsStored ==
    [][(Handled /\ last'.op = "generate_email" /\ last'.val.status = 201)
       => LET account == get_account_rows(temp_emails', last'.val.body.email, wall')
          IN  /\ account.ok
              /\ account.val.password = last'.val.body.password
              /\ Len(temp_emails') = Len(temp_emails) + 1]_vars

\* C31: every add_account, get_account and remove_account call made on both
\* stores with the same arguments at the same clock returns the same
\* success or failure, found or not found, and get_account returns the same
\* id, token and password from both.
C31_StoresEquivalent ==
    [][(last' # last /\ last'.ret = "both")
       => /\ last'.ok = last'.mem_ok
          /\ (last'.op = "get" /\ last'.ok) => last'.val = last'.mem_val]_vars

====
